---- MODULE Spec2Model ----
(***************************************************************************)
(* A model of the real-time synchronisation backend of amenassefagashaye/  *)
(* 27BE.  The repository holds two versions of the server, src/server.ts   *)
(* and src/unnamed/part_000; both keep a registry of WebSocket             *)
(* connections, an in-memory cache of four collections and a session map,  *)
(* and both fan notifications out with broadcast().  The variable impl     *)
(* says which of the two programs runs; it is chosen by Init and never     *)
(* changes.                                                                *)
(*                                                                         *)
(* Every event handler of the code runs to completion without yielding     *)
(* (the only await before a mutation is request.json(), which comes        *)
(* before the first write), so one handler is one action.  The sends a     *)
(* handler makes are recorded per recipient, in the order of the send      *)
(* calls, in the variable out (the text sent, as the message it encodes);  *)
(* calls lists the messages the handler passed to broadcast(), and cacheAt *)
(* the cache as it was at each of these calls.                             *)
(*                                                                         *)
(* Values are the JSON values the code handles.  A value that can be an    *)
(* array or something else is a record with a kind field:                  *)
(*   [kind |-> "array", elems |-> <<...>>], [kind |-> "object"] (a truthy  *)
(*   value that is no array) and [kind |-> "undefined"] (absent, falsy).   *)
(***************************************************************************)
EXTENDS Integers, Sequences, FiniteSets, TLC

VARIABLES impl, connections, readyState, closePending, sessions, cache, last, out, calls,
          cacheAt

vars == <<impl, connections, readyState, closePending, sessions, cache, last, out, calls,
          cacheAt>>

(* ------------------------------ bounds --------------------------------- *)

\* The cache never holds more than MaxRecords records, all collections together.
MaxRecords == 4

\* The socket objects that can be created in one run, named in the order of
\* their creation.
Conns == {"ws1", "ws2"}

Older(a, b) == a = "ws1" /\ b = "ws2"

\* The two programs of the repository.
Impls == {"server.ts", "part_000"}

(* ------------------------------ values --------------------------------- *)

Undefined == [kind |-> "undefined"]

Junk == [kind |-> "object"]

Arr(s) == [kind |-> "array", elems |-> s]

IsArray(v) == v.kind = "array"

\* JavaScript truthiness of the values of this model: only an absent value is falsy.
Truthy(v) == v # Undefined

\* Date.now(): the value is never compared by the code.
Now == "Date.now()"

It(i, q) == [id |-> i, quantity |-> q]

\* data of a stock_update message: absent, a list of stock records (one of them
\* with two records of the same id) or a value that is no array.
StockPayloads ==
    { Undefined, Junk,
      Arr(<<It(1, 2)>>),
      Arr(<<It(1, 2), It(1, 2)>>) }

\* data of a sale_update message or the body of POST /api/sales: a sale without
\* line items, one with line items, one whose items field is no array.
SaleBodies ==
    { [items |-> Undefined],
      [items |-> Arr(<<It(1, 1), It(2, 1)>>)],
      [items |-> Junk] }

TransactionBodies == { [ref |-> "t1"] }

AuditBodies == { [action |-> "manual"] }

\* userType and userName of the auth messages; Absent is a field that is not there.
Absent == "undefined"

AuthFields == { <<"admin", "Abebe">>, <<Absent, "Abebe">> }

(* ------------------------------ frames --------------------------------- *)

Msg(t, d, ut, un) == [parses |-> TRUE, type |-> t, data |-> d, userType |-> ut, userName |-> un]

\* A text frame JSON.parse rejects.
Malformed == [parses |-> FALSE, type |-> Absent, data |-> Undefined, userType |-> Absent, userName |-> Absent]

\* data of a sync_response message (part_000): the fields to assign to the cache.
SyncPayloads ==
    { [sales |-> Arr(<<>>), audit |-> Arr(<<>>)],
      [stockItems |-> Junk] }

Frames ==
    {Malformed}
    \cup { Msg("auth", Undefined, a[1], a[2]) : a \in AuthFields }
    \cup { Msg("stock_update", d, Absent, Absent) : d \in StockPayloads }
    \cup { Msg("sale_update", d, Absent, Absent) : d \in SaleBodies \cup {Undefined} }
    \cup { Msg("transaction_update", d, Absent, Absent) : d \in TransactionBodies \cup {Undefined} }
    \cup { Msg("audit_update", d, Absent, Absent) : d \in AuditBodies }
    \cup { Msg("sync_request", Undefined, Absent, Absent) }
    \cup { Msg("sync_response", d, Absent, Absent) : d \in SyncPayloads }

(* ------------------------- the handler's state ------------------------- *)

\* What a running handler has done so far: the cache and the sessions as it
\* left them, the sends per recipient, the broadcast calls, and whether an
\* exception is propagating.
Start == [cache |-> cache, sessions |-> sessions, out |-> [c \in Conns |-> <<>>],
          calls |-> <<>>, cacheAt |-> <<>>, threw |-> FALSE]

Throw(h) == [h EXCEPT !.threw = TRUE]

\* JSON.stringify of a message object: a property whose value is undefined is
\* left out. data is the one property the handlers can set to undefined; every
\* other value of a message came out of JSON.parse or is a string or a number.
stringify(message) ==
    IF "data" \in DOMAIN message /\ message.data = Undefined
    THEN [f \in DOMAIN message \ {"data"} |-> message[f]]
    ELSE message

\* ws.send(JSON.stringify(msg)) outside broadcast.
send(h, ws, msg) == [h EXCEPT !.out[ws] = Append(@, [msg |-> stringify(msg), call |-> 0])]

\* A broadcast that does not look at readyState.
broadcastToAllRegistered(h, message) ==
    LET k == Len(h.calls) + 1
    IN [h EXCEPT !.calls = Append(@, message),
                 !.cacheAt = Append(@, h.cache),
                 !.out = [c \in Conns |->
                            IF c \in connections
                            THEN Append(h.out[c], [msg |-> stringify(message), call |-> k])
                            ELSE h.out[c]]]

broadcast(h, message) ==
    LET k == Len(h.calls) + 1
    IN [h EXCEPT !.calls = Append(@, message),
                 !.cacheAt = Append(@, h.cache),
                 !.out = [c \in Conns |->
                            IF c \in connections /\ readyState[c] = "OPEN"
                            THEN Append(h.out[c], [msg |-> stringify(message), call |-> k])
                            ELSE h.out[c]]]

\* sessions.set(ws, s) and sessions.delete(ws) of a Map.
MapSet(m, k, v) == [x \in DOMAIN m \cup {k} |-> IF x = k THEN v ELSE m[x]]

MapDelete(m, k) == [x \in DOMAIN m \ {k} |-> m[x]]

\* {...data, timestamp: Date.now()}
WithTimestamp(data) ==
    [f \in DOMAIN data \cup {"timestamp"} |-> IF f = "timestamp" THEN Now ELSE data[f]]

(* ------------------------------ server.ts ------------------------------ *)

Min(S) == CHOOSE x \in S : \A y \in S : x <= y

\* items.forEach over an array of stock records: find() returns the first
\* record with the item's id, and its quantity is decremented in place.
RECURSIVE forEachItem(_, _)
forEachItem(stock, items) ==
    IF items = <<>> THEN stock
    ELSE LET item == Head(items)
             hits == {i \in DOMAIN stock : stock[i].id = item.id}
         IN forEachItem(IF hits = {} THEN stock
                        ELSE [stock EXCEPT ![Min(hits)].quantity = @ - item.quantity],
                        Tail(items))

\* items.forEach is no function when items is no array; cache.stockItems.find is
\* no function when the stock collection is no array (and is called for the
\* first item, if there is one).
updateStockLevels(h, items) ==
    IF ~IsArray(items) THEN Throw(h)
    ELSE IF items.elems = <<>> THEN h
    ELSE IF ~IsArray(h.cache.stockItems) THEN Throw(h)
    ELSE [h EXCEPT !.cache.stockItems.elems = forEachItem(@, items.elems)]

\* An audit broadcast that carries the collection as it was before the push.
logAuditStale(h, action, data) ==
    LET h1 == [h EXCEPT !.cache.audit.elems =
                          Append(@, [action |-> action, data |-> data, timestamp |-> Now])]
    IN broadcast(h1, [type |-> "audit_updated", data |-> h.cache.audit])

logAudit(h, action, data) ==
    LET h1 == [h EXCEPT !.cache.audit.elems =
                          Append(@, [action |-> action, data |-> data, timestamp |-> Now])]
    IN broadcast(h1, [type |-> "audit_updated", data |-> h1.cache.audit])

authServer(h, ws, message) ==
    IF message.userType # Absent /\ message.userName # Absent
    THEN send([h EXCEPT !.sessions = MapSet(@, ws, [userType |-> message.userType,
                                                    userName |-> message.userName,
                                                    timestamp |-> Now])],
              ws,
              [type |-> "initial_data", stockItems |-> h.cache.stockItems,
               sales |-> h.cache.sales, transactions |-> h.cache.transactions])
    ELSE h

stockUpdateServer(h, message) ==
    LET h1 == [h EXCEPT !.cache.stockItems =
                          IF Truthy(message.data) THEN message.data ELSE Arr(<<>>)]
    IN broadcast(h1, [type |-> "stock_updated", data |-> h1.cache.stockItems])

\* A sale_update handler that logs the audit entry before it broadcasts the sales.
saleUpdateAuditFirst(h, message) ==
    IF ~Truthy(message.data) THEN h
    ELSE LET h1 == [h EXCEPT !.cache.sales.elems = Append(@, WithTimestamp(message.data))]
             h2 == logAudit(h1, "sale_created", message.data)
         IN broadcast(h2, [type |-> "sales_updated", data |-> h2.cache.sales])

saleUpdateServer(h, message) ==
    IF ~Truthy(message.data) THEN h
    ELSE LET h1 == [h EXCEPT !.cache.sales.elems = Append(@, WithTimestamp(message.data))]
             h2 == broadcast(h1, [type |-> "sales_updated", data |-> h1.cache.sales])
             h3 == IF Truthy(message.data.items)
                   THEN updateStockLevels(h2, message.data.items)
                   ELSE h2
         IN IF h3.threw THEN h3 ELSE logAudit(h3, "sale_created", message.data)

transactionUpdateServer(h, message) ==
    IF ~Truthy(message.data) THEN h
    ELSE LET h1 == [h EXCEPT !.cache.transactions.elems = Append(@, WithTimestamp(message.data))]
             h2 == broadcast(h1, [type |-> "transactions_updated", data |-> h1.cache.transactions])
         IN logAudit(h2, "transaction_created", message.data)

\* A snapshot that leaves the audit collection out, as initial_data does.
syncRequestWithoutAudit(h, ws) ==
    send(h, ws, [type |-> "sync_response", stockItems |-> h.cache.stockItems,
                 sales |-> h.cache.sales, transactions |-> h.cache.transactions])

\* {type: 'sync_response', ...cache}
syncRequestServer(h, ws) ==
    send(h, ws, [type |-> "sync_response", stockItems |-> h.cache.stockItems,
                 sales |-> h.cache.sales, transactions |-> h.cache.transactions,
                 audit |-> h.cache.audit])

ErrorMessage == [type |-> "error", message |-> "Failed to process message"]

\* ws.onmessage of server.ts: the try block, then the catch block.
onmessageServer(ws, frame) ==
    LET h == Start
        tried ==
            IF ~frame.parses THEN Throw(h)
            ELSE CASE frame.type = "auth" -> authServer(h, ws, frame)
                   [] frame.type = "stock_update" -> stockUpdateServer(h, frame)
                   [] frame.type = "sale_update" -> saleUpdateServer(h, frame)
                   [] frame.type = "transaction_update" -> transactionUpdateServer(h, frame)
                   [] frame.type = "sync_request" -> syncRequestServer(h, ws)
                   [] OTHER -> h
    IN IF tried.threw THEN send(tried, ws, ErrorMessage) ELSE tried

(* ------------------------------ part_000 ------------------------------- *)

authPart(h, ws, message) ==
    send([h EXCEPT !.sessions = MapSet(@, ws, [userType |-> message.userType,
                                               userName |-> message.userName,
                                               authenticated |-> TRUE])],
         ws, [type |-> "auth_success", message |-> "Authenticated"])

\* stock_update, sale_update and audit_update are relayed, the cache is not touched.
relayPart(h, message) == broadcast(h, [type |-> message.type, data |-> message.data])

\* A snapshot that goes to every open connection instead of the requester.
syncRequestToAll(h, ws) == broadcast(h, [type |-> "sync_response", data |-> h.cache])

\* {type: 'sync_response', data: cache}
syncRequestPart(h, ws) == send(h, ws, [type |-> "sync_response", data |-> h.cache])

\* Object.assign(cache, message.data): every field of data overwrites the
\* cache's; an absent data assigns nothing.
syncResponsePart(h, message) ==
    IF ~Truthy(message.data) THEN h
    ELSE [h EXCEPT !.cache = [f \in DOMAIN h.cache \cup DOMAIN message.data |->
                                 IF f \in DOMAIN message.data THEN message.data[f]
                                 ELSE h.cache[f]]]

handleWebSocketMessage(h, ws, message) ==
    CASE message.type = "auth" -> authPart(h, ws, message)
      [] message.type \in {"stock_update", "sale_update", "audit_update"} -> relayPart(h, message)
      [] message.type = "sync_request" -> syncRequestPart(h, ws)
      [] message.type = "sync_response" -> syncResponsePart(h, message)
      [] OTHER -> h

\* ws.onmessage of part_000: the catch block only logs.
onmessagePart(ws, frame) ==
    LET h == Start
    IN IF ~frame.parses THEN Throw(h) ELSE handleWebSocketMessage(h, ws, frame)

(* ------------------------------ HTTP API ------------------------------- *)

Req(m, p, b) == [method |-> m, path |-> p, body |-> b]

\* A request body request.json() rejects.
BadBody == [kind |-> "unparseable"]

StockBodies == { It(3, 1) }

PostedSales == { [items |-> Arr(<<It(1, 1), It(2, 1)>>)] }

Requests ==
    { Req("POST", "/api/clear-cache", Undefined) }
    \cup { Req("POST", "/api/stock", b) : b \in StockBodies \cup {BadBody} }
    \cup { Req("POST", "/api/sales", b) : b \in PostedSales }
    \cup { Req("POST", "/api/audit", b) : b \in AuditBodies }

\* A clear-cache that forgets the audit collection.
clearCacheKeepsAudit(req) ==
    LET h == Start
    IN IF req.path = "/api/clear-cache" /\ req.method = "POST"
       THEN broadcast([h EXCEPT !.cache.stockItems = Arr(<<>>), !.cache.sales = Arr(<<>>),
                                !.cache.transactions = Arr(<<>>)],
                      [type |-> "cache_cleared"])
       ELSE h

\* handleRequest of server.ts, the /api/ branch: clear-cache is the one path
\* that writes; every other path of Requests answers 404.
handleRequestServer(req) ==
    LET h == Start
    IN IF req.path = "/api/clear-cache" /\ req.method = "POST"
       THEN broadcast([h EXCEPT !.cache.stockItems = Arr(<<>>), !.cache.sales = Arr(<<>>),
                                !.cache.transactions = Arr(<<>>), !.cache.audit = Arr(<<>>)],
                      [type |-> "cache_cleared"])
       ELSE h

\* One POST branch of handleAPI: request.json(), cache[field].push(data),
\* broadcast. push is no function when the collection is no array.
postPart(h, field, type, body) ==
    IF body = BadBody THEN Throw(h)
    ELSE IF ~IsArray(h.cache[field]) THEN Throw(h)
    ELSE broadcast([h EXCEPT !.cache[field].elems = Append(@, body)],
                   [type |-> type, data |-> body])

\* handleAPI of part_000: an exception is answered with status 500.
handleAPI(req) ==
    LET h == Start
    IN IF req.method # "POST" THEN h
       ELSE CASE req.path = "/api/stock" -> postPart(h, "stockItems", "stock_update", req.body)
              [] req.path = "/api/sales" -> postPart(h, "sales", "sale_update", req.body)
              [] req.path = "/api/audit" -> postPart(h, "audit", "audit_update", req.body)
              [] OTHER -> h

(* ------------------------------ actions -------------------------------- *)

EmptyCache == [stockItems |-> Arr(<<>>), sales |-> Arr(<<>>),
               transactions |-> Arr(<<>>), audit |-> Arr(<<>>)]

NoSends == [c \in Conns |-> <<>>]

Event(op, conn, input, threw) == [op |-> op, conn |-> conn, input |-> input, threw |-> threw]

Init ==
    /\ impl \in Impls
    /\ connections = {}
    /\ readyState = [c \in Conns |-> "NONE"]
    /\ closePending = {}
    /\ sessions = <<>>
    /\ cache = EmptyCache
    /\ last = Event("init", "none", Undefined, FALSE)
    /\ out = NoSends
    /\ calls = <<>>
    /\ cacheAt = <<>>

Size(v) == IF IsArray(v) THEN Len(v.elems) ELSE 0

\* The cache of h stays within MaxRecords records.
WithinBounds(h) ==
    Size(h.cache.stockItems) + Size(h.cache.sales) + Size(h.cache.transactions)
        + Size(h.cache.audit) <= MaxRecords

\* The state a handler leaves behind.
Finish(h, op, conn, input) ==
    /\ WithinBounds(h)
    /\ cache' = h.cache
    /\ sessions' = h.sessions
    /\ out' = h.out
    /\ calls' = h.calls
    /\ cacheAt' = h.cacheAt
    /\ last' = Event(op, conn, input, h.threw)

\* handleWebSocket(ws): the upgraded socket is registered before it is open.
handleWebSocket(ws) ==
    /\ readyState[ws] = "NONE"
    /\ \A other \in Conns : Older(other, ws) => readyState[other] # "NONE"
    /\ connections' = connections \cup {ws}
    /\ readyState' = [readyState EXCEPT ![ws] = "CONNECTING"]
    /\ Finish(Start, "upgrade", ws, Undefined)
    /\ UNCHANGED <<impl, closePending>>

onopen(ws) ==
    /\ readyState[ws] = "CONNECTING"
    /\ readyState' = [readyState EXCEPT ![ws] = "OPEN"]
    /\ Finish(send(Start, ws, [type |-> "connected", message |-> "Connected to server"]),
              "onopen", ws, Undefined)
    /\ UNCHANGED <<impl, connections, closePending>>

onmessage(ws, frame) ==
    /\ readyState[ws] = "OPEN"
    /\ Finish(IF impl = "server.ts" THEN onmessageServer(ws, frame) ELSE onmessagePart(ws, frame),
              "onmessage", ws, frame)
    /\ UNCHANGED <<impl, connections, readyState, closePending>>

\* An unregister that raises when the connection is not registered.
unregisterStrict(h, ws) ==
    IF ws \notin connections THEN Throw(h)
    ELSE IF impl = "server.ts" THEN [h EXCEPT !.sessions = MapDelete(@, ws)] ELSE h

\* connections.delete(ws), and in server.ts sessions.delete(ws).
unregister(h, ws) ==
    IF impl = "server.ts" THEN [h EXCEPT !.sessions = MapDelete(@, ws)] ELSE h

\* The transport fails: readyState is CLOSED when the error event is
\* dispatched, and the close event follows.
onerror(ws) ==
    /\ readyState[ws] \in {"CONNECTING", "OPEN"}
    /\ readyState' = [readyState EXCEPT ![ws] = "CLOSED"]
    /\ closePending' = closePending \cup {ws}
    /\ connections' = connections \ {ws}
    /\ Finish(unregister(Start, ws), "onerror", ws, Undefined)
    /\ UNCHANGED impl

\* The close event: after a clean close, or after the error event.
onclose(ws) ==
    /\ readyState[ws] \in {"CONNECTING", "OPEN"} \/ ws \in closePending
    /\ readyState' = [readyState EXCEPT ![ws] = "CLOSED"]
    /\ closePending' = closePending \ {ws}
    /\ connections' = connections \ {ws}
    /\ Finish(unregister(Start, ws), "onclose", ws, [wasClean |-> ws \notin closePending])
    /\ UNCHANGED impl

handleRequest(req) ==
    /\ Finish(IF impl = "server.ts" THEN handleRequestServer(req) ELSE handleAPI(req),
              "request", "http", req)
    /\ UNCHANGED <<impl, connections, readyState, closePending>>

Next ==
    \/ \E ws \in Conns : handleWebSocket(ws)
    \/ \E ws \in Conns : onopen(ws)
    \/ \E ws \in Conns, frame \in Frames : onmessage(ws, frame)
    \/ \E ws \in Conns : onerror(ws)
    \/ \E ws \in Conns : onclose(ws)
    \/ \E req \in Requests : handleRequest(req)

Spec == Init /\ [][Next]_vars

(* ------------------------------ claims --------------------------------- *)

Collections == {"stockItems", "sales", "transactions", "audit"}

IsOpen(c) == c \in connections /\ readyState[c] = "OPEN"

\* The last event was a WebSocket message of type t.
Handled(e, t) == e.op = "onmessage" /\ e.input.parses /\ e.input.type = t

\* The sends of a handler to one recipient that broadcast() made.
Broadcasts(o) == SelectSeq(o, LAMBDA e : e.call # 0)

\* C1. Broadcast fan-out: every broadcast(message) call of a handler puts exactly
\* one copy of message on every connection that is registered and OPEN when the
\* handler runs (the sender included) and nothing on a connection that is
\* registered but not open, or not registered.
C1_BroadcastFanOut ==
    [][\A k \in 1..Len(calls') : \A c \in Conns :
          LET got == {i \in DOMAIN out'[c] : out'[c][i].call = k}
          IN /\ \A i \in got : out'[c][i].msg = stringify(calls'[k])
             /\ Cardinality(got) = IF IsOpen(c) THEN 1 ELSE 0]_vars

\* A message handler broadcast while one registered connection was still
\* CONNECTING: the sender got its copy, the other connection nothing.
C1_Witness ==
    /\ last.op = "onmessage"
    /\ Len(calls) >= 1
    /\ out[last.conn] # <<>>
    /\ \E c \in connections : readyState[c] = "CONNECTING" /\ out[c] = <<>>

\* C2. Per-recipient FIFO: the messages a handler's broadcasts send to one
\* connection are sent in the order of the broadcast calls (handlers run one
\* after the other, so this is the order of all broadcasts), and a sale_update
\* of server.ts sends sales_updated before its audit_updated.
C2_PerRecipientFifo ==
    \A c \in Conns :
        LET bs == Broadcasts(out[c])
        IN /\ \A i \in DOMAIN bs : bs[i].call \in DOMAIN calls /\ bs[i].msg = stringify(calls[bs[i].call])
           /\ \A i, j \in DOMAIN bs : i < j => bs[i].call < bs[j].call
           /\ (impl = "server.ts" /\ Handled(last, "sale_update")) =>
                \A j \in DOMAIN bs : bs[j].msg.type = "audit_updated" =>
                    \E i \in 1..(j - 1) : bs[i].msg.type = "sales_updated"

\* A sale_update that sent both notifications to a second open connection.
C2_Witness ==
    /\ impl = "server.ts"
    /\ Handled(last, "sale_update")
    /\ \E c \in Conns \ {last.conn} :
          /\ Len(out[c]) = 2
          /\ out[c][1].msg.type = "sales_updated"
          /\ out[c][2].msg.type = "audit_updated"

\* The collections a sync_response reply carries: at the top level in
\* server.ts, under data in part_000.
SnapshotOf(m) == IF "data" \in DOMAIN m THEN m.data ELSE [f \in DOMAIN m \ {"type"} |-> m[f]]

\* C3. Snapshot completeness: the reply to a sync_request is one sync_response
\* to the requester that carries all four collections, each equal to the
\* cache's collection when the request is handled.
C3_SnapshotCompleteness ==
    [][Handled(last', "sync_request") =>
          LET reply == out'[last'.conn]
          IN /\ Len(reply) = 1
             /\ reply[1].msg.type = "sync_response"
             /\ Collections \subseteq DOMAIN SnapshotOf(reply[1].msg)
             /\ \A f \in Collections : SnapshotOf(reply[1].msg)[f] = cache[f]]_vars

\* A sync_request answered while the cache held records in several collections.
C3_Witness ==
    /\ Handled(last, "sync_request")
    /\ Len(out[last.conn]) = 1
    /\ Cardinality({f \in Collections : Size(cache[f]) > 0}) >= 2

Max(S) == CHOOSE x \in S : \A y \in S : y <= x

\* The notification type with which server.ts broadcasts each collection.
NotificationOf == [stockItems |-> "stock_updated", sales |-> "sales_updated",
                   transactions |-> "transactions_updated", audit |-> "audit_updated"]

\* What the broadcasts cs of one handler say last about collection f:
\* Undefined when none of them is about f.
LastBroadcastOf(cs, f) ==
    LET about == {i \in DOMAIN cs : cs[i].type \in {NotificationOf[f], "cache_cleared"}}
    IN IF about = {} THEN Undefined
       ELSE IF cs[Max(about)].type = "cache_cleared" THEN Arr(<<>>)
       ELSE cs[Max(about)].data

\* C4. Eventual consistency of client views: a handler of server.ts that leaves a
\* collection of the cache changed has broadcast that collection's new value, so
\* a client that merges every notification holds the cache's collections once
\* the handlers stop (the stock decrement of a sale included).
C4_ViewsFollowCache ==
    [][impl = "server.ts" =>
          \A f \in Collections :
              cache'[f] # cache[f] => LastBroadcastOf(calls', f) = cache'[f]]_vars

\* What the running program does with a request and with a message.
ApiResult(req) == IF impl = "server.ts" THEN handleRequestServer(req) ELSE handleAPI(req)

SocketResult(ws, frame) ==
    IF impl = "server.ts" THEN onmessageServer(ws, frame) ELSE onmessagePart(ws, frame)

\* C5. Cache/broadcast equivalence: from any state, POST /api/sales with body B
\* and a sale_update message with data B leave the same cache and make the same
\* broadcasts; POST /api/stock and POST /api/audit broadcast what the
\* stock_update and audit_update messages with that data broadcast.
C5_ApiSocketEquivalence ==
    \A ws \in Conns : IsOpen(ws) =>
        /\ \A B \in SaleBodies :
              LET a == ApiResult(Req("POST", "/api/sales", B))
                  w == SocketResult(ws, Msg("sale_update", B, Absent, Absent))
              IN a.cache = w.cache /\ a.calls = w.calls
        /\ \A B \in StockBodies :
              ApiResult(Req("POST", "/api/stock", B)).calls
                  = SocketResult(ws, Msg("stock_update", B, Absent, Absent)).calls
        /\ \A B \in AuditBodies :
              ApiResult(Req("POST", "/api/audit", B)).calls
                  = SocketResult(ws, Msg("audit_update", B, Absent, Absent)).calls

\* The quantity the line items list for stock identifier id.
RECURSIVE Listed(_, _)
Listed(items, id) ==
    IF items = <<>> THEN 0
    ELSE (IF Head(items).id = id THEN Head(items).quantity ELSE 0) + Listed(Tail(items), id)

\* C6. Stock adjustment: a sale_update of server.ts whose data.items is a list of
\* (id, quantity) pairs lowers the quantity of every stock record with a listed
\* id by the listed quantity, leaves every other record and a stock collection
\* without a matching record as they are, and sends no error to the sender.
C6_StockAdjustment ==
    [][(impl = "server.ts" /\ Handled(last', "sale_update")
            /\ Truthy(last'.input.data) /\ IsArray(last'.input.data.items)) =>
          LET items == last'.input.data.items.elems
              old == cache.stockItems
              new == cache'.stockItems
          IN /\ \A i \in DOMAIN out'[last'.conn] : out'[last'.conn][i].msg.type # "error"
             /\ IF IsArray(old)
                THEN /\ IsArray(new)
                     /\ Len(new.elems) = Len(old.elems)
                     /\ \A i \in DOMAIN old.elems :
                           /\ new.elems[i].id = old.elems[i].id
                           /\ new.elems[i].quantity
                                = old.elems[i].quantity - Listed(items, old.elems[i].id)
                ELSE new = old]_vars

IsClear(e) == e.op = "request" /\ e.input.method = "POST" /\ e.input.path = "/api/clear-cache"

\* C7. Clear operation: POST /api/clear-cache of server.ts leaves the four
\* collections empty and sends exactly one cache_cleared notice to every
\* connection open at that time (and nothing to the others); a sync_request
\* handled right after it is answered with four empty sequences.
C7_ClearOperation ==
    [][/\ (impl = "server.ts" /\ IsClear(last')) =>
            /\ cache' = EmptyCache
            /\ \A c \in Conns :
                  out'[c] = IF IsOpen(c)
                            THEN <<[msg |-> [type |-> "cache_cleared"], call |-> 1]>>
                            ELSE <<>>
       /\ (impl = "server.ts" /\ IsClear(last) /\ Handled(last', "sync_request")) =>
            /\ Len(out'[last'.conn]) = 1
            /\ \A f \in Collections : SnapshotOf(out'[last'.conn][1].msg)[f] = Arr(<<>>)]_vars

\* The cache was cleared while one connection was open and the other was not:
\* the open one got the notice.
C7_Witness ==
    /\ impl = "server.ts"
    /\ IsClear(last)
    /\ \E c \in Conns : IsOpen(c) /\ Len(out[c]) = 1
    /\ \E c \in Conns : ~IsOpen(c) /\ out[c] = <<>>

\* C8. Malformed message resilience: a frame that does not parse gets exactly
\* one error message, sent to its sender only; the cache, the registry and the
\* sessions stay as they were and the sender stays registered and open.
C8_MalformedResilience ==
    [][(last'.op = "onmessage" /\ ~last'.input.parses) =>
          /\ Len(out'[last'.conn]) = 1
          /\ out'[last'.conn][1].msg.type = "error"
          /\ \A c \in Conns \ {last'.conn} : out'[c] = <<>>
          /\ cache' = cache /\ connections' = connections /\ sessions' = sessions
          /\ last'.conn \in connections' /\ readyState'[last'.conn] = "OPEN"]_vars

\* C9. Idempotent registry: a close or error notification for a connection that
\* is no longer registered changes neither the registry nor the sessions and
\* raises nothing; a handler that broadcasts while no registered connection is
\* open sends nothing and raises nothing.
C9_IdempotentRegistry ==
    [][/\ (last'.op \in {"onclose", "onerror"} /\ last'.conn \notin connections) =>
            connections' = connections /\ sessions' = sessions /\ ~last'.threw
       /\ (calls' # <<>> /\ \A c \in Conns : ~IsOpen(c)) =>
            (\A c \in Conns : out'[c] = <<>>) /\ ~last'.threw]_vars

\* The close notification that follows an error notification: the connection
\* was unregistered by the error handler already.
C9_Witness ==
    /\ last.op = "onclose"
    /\ ~last.input.wasClean
    /\ last.conn \notin connections

\* C10. Auth transition: an admitted connection has no session; an auth message
\* with userType and userName sets the sender's session (and no other) and is
\* answered, to the sender only, with an acknowledgment or with a snapshot of
\* all four collections; an auth message without one of them sets no session.
C10_AuthTransition ==
    [][/\ last'.op = "upgrade" => last'.conn \notin DOMAIN sessions'
       /\ Handled(last', "auth") =>
            LET ws == last'.conn
                m == last'.input
            IN IF m.userType # Absent /\ m.userName # Absent
               THEN /\ ws \in DOMAIN sessions'
                    /\ sessions'[ws].userType = m.userType
                    /\ sessions'[ws].userName = m.userName
                    /\ \A c \in Conns \ {ws} :
                          /\ out'[c] = <<>>
                          /\ (c \in DOMAIN sessions') = (c \in DOMAIN sessions)
                          /\ c \in DOMAIN sessions => sessions'[c] = sessions[c]
                    /\ Len(out'[ws]) = 1
                    /\ \/ out'[ws][1].msg.type = "auth_success"
                       \/ /\ Collections \subseteq DOMAIN SnapshotOf(out'[ws][1].msg)
                          /\ \A f \in Collections : SnapshotOf(out'[ws][1].msg)[f] = cache[f]
               ELSE sessions' = sessions]_vars

\* C11. stock_update: whatever the sender's session, a stock_update message
\* replaces the cache's stock collection with the supplied payload and is
\* followed by one broadcast whose payload is the cache's stock collection
\* after the handler; sales, transactions, audit and the sessions are unchanged.
C11_StockUpdate ==
    [][Handled(last', "stock_update") =>
          /\ Truthy(last'.input.data) => cache'.stockItems = last'.input.data
          /\ Len(calls') = 1
          /\ calls'[1].data = cache'.stockItems
          /\ \A c \in Conns : IsOpen(c) => Len(out'[c]) = 1
          /\ \A f \in Collections \ {"stockItems"} : cache'[f] = cache[f]
          /\ sessions' = sessions]_vars

\* C12. audit_update: an audit_update message appends the supplied entry to the
\* cache's audit collection (one entry more, the earlier entries in their
\* order) and is followed by a broadcast of the updated audit collection.
C12_AuditUpdate ==
    [][Handled(last', "audit_update") =>
          /\ IsArray(cache'.audit)
          /\ Len(cache'.audit.elems) = Len(cache.audit.elems) + 1
          /\ SubSeq(cache'.audit.elems, 1, Len(cache.audit.elems)) = cache.audit.elems
          /\ \E k \in 1..Len(calls') : calls'[k].data = cache'.audit]_vars

\* C13. sync_request is private and read-only: the requester gets exactly one
\* sync_response, no other connection gets anything, and the cache, the
\* registry and the sessions stay as they were.
C13_SyncRequestPrivate ==
    [][Handled(last', "sync_request") =>
          /\ Len(out'[last'.conn]) = 1
          /\ out'[last'.conn][1].msg.type = "sync_response"
          /\ \A c \in Conns \ {last'.conn} : out'[c] = <<>>
          /\ calls' = <<>>
          /\ cache' = cache /\ connections' = connections /\ sessions' = sessions]_vars

\* A sync_request was answered while another connection was open and the
\* cache held a record: the other connection got nothing.
C13_Witness ==
    /\ Handled(last, "sync_request")
    /\ Len(out[last.conn]) = 1
    /\ \E c \in Conns \ {last.conn} : IsOpen(c) /\ out[c] = <<>>
    /\ \E f \in Collections : IsArray(cache[f]) /\ cache[f].elems # <<>>

\* C14. sync_response: a sync_response message overwrites in the cache exactly
\* the fields its data supplies, leaves every other collection as it was, sends
\* nothing to any connection and changes neither the registry nor a session.
C14_SyncResponseMerge ==
    [][Handled(last', "sync_response") =>
          /\ \A f \in DOMAIN last'.input.data :
                f \in DOMAIN cache' /\ cache'[f] = last'.input.data[f]
          /\ \A f \in DOMAIN cache \ DOMAIN last'.input.data :
                f \in DOMAIN cache' /\ cache'[f] = cache[f]
          /\ \A c \in Conns : out'[c] = <<>>
          /\ connections' = connections /\ sessions' = sessions]_vars

\* The collection to which part_000's handleAPI appends the record it then
\* broadcasts under each message type.
PostedTo == [stock_update |-> "stockItems", sale_update |-> "sales",
             audit_update |-> "audit"]

\* C15. Handler atomicity: a handler runs as one step, no other handler's
\* mutation or broadcast falls between its own, so each of its broadcasts
\* carries the cache as it is at the moment of the call: a notification of a
\* collection carries that collection, the notice of a clearing finds all four
\* collections empty, and the record a POST announces is the last of its
\* collection.
C15_HandlerAtomicity ==
    /\ Len(cacheAt) = Len(calls)
    /\ \A k \in 1..Len(calls) :
          /\ \A f \in Collections :
                calls[k].type = NotificationOf[f] => calls[k].data = cacheAt[k][f]
          /\ calls[k].type = "cache_cleared" =>
                \A f \in Collections : cacheAt[k][f] = Arr(<<>>)
          /\ (last.op = "request" /\ calls[k].type \in DOMAIN PostedTo) =>
                LET col == cacheAt[k][PostedTo[calls[k].type]]
                IN /\ IsArray(col) /\ col.elems # <<>>
                   /\ col.elems[Len(col.elems)] = calls[k].data

\* A sale_update of server.ts broadcast the sales and then went on to lower a
\* stock quantity: the cache at the first broadcast is not the cache at the end.
C15_Witness ==
    /\ Handled(last, "sale_update")
    /\ Len(calls) = 2
    /\ calls[1].data = cacheAt[1].sales
    /\ cacheAt[1].stockItems # cache.stockItems

\* C16. Session lifecycle: every key of the session table is a registered
\* connection, and a close or error notification for a connection removes both
\* its registry membership and its session.
C16_SessionLifecycle ==
    [][/\ DOMAIN sessions' \subseteq connections'
       /\ last'.op \in {"onclose", "onerror"} =>
             /\ last'.conn \notin connections'
             /\ last'.conn \notin DOMAIN sessions']_vars

\* C17. No partial application on failure: when the handling of a message by
\* server.ts raises, the cache is as it was before the message, no broadcast of
\* that message has gone out, the sender alone is told of the error, and the
\* registry and the sessions are unchanged.
C17_NoPartialApplication ==
    [][(impl = "server.ts" /\ last'.op = "onmessage" /\ last'.threw) =>
          /\ cache' = cache
          /\ calls' = <<>>
          /\ Len(out'[last'.conn]) = 1
          /\ out'[last'.conn][1].msg.type = "error"
          /\ \A c \in Conns \ {last'.conn} : out'[c] = <<>>
          /\ connections' = connections /\ sessions' = sessions]_vars

\* C18. sale_update step order in server.ts: a sale_update with data appends one
\* timestamped sale, broadcasts the sales (the stock and the audit collection
\* still as before), adjusts the stock, then appends one sale_created audit
\* entry and broadcasts the audit collection; the sessions are unchanged. A
\* sale_update without data changes nothing and broadcasts nothing.
C18_SaleUpdateOrder ==
    [][(impl = "server.ts" /\ Handled(last', "sale_update")) =>
          IF Truthy(last'.input.data)
          THEN /\ cache'.sales.elems = Append(cache.sales.elems, WithTimestamp(last'.input.data))
               /\ Len(calls') = 2
               /\ calls'[1].type = "sales_updated" /\ calls'[1].data = cache'.sales
               /\ cacheAt'[1].stockItems = cache.stockItems
               /\ cacheAt'[1].audit = cache.audit
               /\ Len(cache'.audit.elems) = Len(cache.audit.elems) + 1
               /\ cache'.audit.elems[Len(cache'.audit.elems)].action = "sale_created"
               /\ calls'[2].type = "audit_updated" /\ calls'[2].data = cache'.audit
               /\ cacheAt'[2].stockItems = cache'.stockItems
               /\ cache'.transactions = cache.transactions
               /\ sessions' = sessions
          ELSE cache' = cache /\ calls' = <<>> /\ sessions' = sessions]_vars

\* C19. Audit accounting in server.ts: in every reachable state the number of
\* audit entries is the number of sales plus the number of transactions.
C19_AuditAccounting ==
    impl = "server.ts" =>
        Size(cache.audit) = Size(cache.sales) + Size(cache.transactions)

\* C20. Cache shape: in every reachable state the cache consists of exactly the
\* four collections stockItems, sales, transactions and audit, and each of them
\* is an ordered sequence.
C20_CacheShape ==
    /\ DOMAIN cache = Collections
    /\ \A f \in Collections : IsArray(cache[f])

====
